---- MODULE Spec2Model ----
(***************************************************************************)
(* The artifact end-points of the queue (src/src/artifacts.js).            *)
(*                                                                         *)
(* Every request is handled by an async function; between two awaits the   *)
(* handler runs without interruption, so one action of this module is one  *)
(* such stretch of the handler together with the external call that ends   *)
(* its await (a Task.load, an Artifact.create / load / modify, a publish). *)
(* The Artifact table is the only state the requests share.                *)
(*                                                                         *)
(* Times are minutes.  An artifact name is the sequence of its segments,   *)
(* "public/a" being <<"public", "a">>, so that joining with "/" is the     *)
(* concatenation of sequences.                                             *)
(***************************************************************************)
EXTENDS Integers, Sequences, FiniteSets, TLC

VARIABLES
  now,        \* the clock read by new Date() and Date.now()
  tasks,      \* the Task table: taskId -> task entity, or NoEntity
  artifacts,  \* the Artifact table: <<taskId, runId, name>> -> entity, or NoEntity
  pc,         \* per request handler: the await it is suspended at
  req,        \* per request handler: req.params, req.body and what req.satisfies answers
  task,       \* per request handler: `task`, as loaded, while the handler runs
  artifact,   \* per request handler: `artifact`, the entity object, while the handler runs
  published,  \* per request handler: the message handed to publisher.artifactCreated
  res,        \* per request handler: the response sent
  auth        \* per request handler: the parameters req.satisfies was called with

vars == <<now, tasks, artifacts, pc, req, task, artifact, published, res, auth>>

----------------------------------------------------------------------------
(* Bounds of the model *)

\* number of distinct in-range expiration times a request may ask for
NumExpires == 2
\* number of distinct urls (reference) and of distinct messages (error)
NumVariants == 2

----------------------------------------------------------------------------
(* Values *)

\* an absent string property (undefined)
Undef == "<undefined>"
\* an absent object: no entity, no request, no response, no message
NoEntity   == [none |-> "entity"]
NoRequest  == [none |-> "request"]
NoResponse == [code |-> "none"]
NoMessage  == [none |-> "message"]
\* req.satisfies has not been called
NoParams   == [none |-> "params"]
\* a run that is not resolved has no `resolved` time
NoTime == -1

\* concurrent request handlers
Workers    == {"w1", "w2"}
AllWorkers == {"w1", "w2", "w3"}

\* configuration of the service
PublicBucketName  == "public-bucket"
PrivateBucketName == "private-bucket"
BlobContainer     == "blob-container"

past15 == 15
allow25 == 25
putUrlMinutes == 30

\* the world the requests run in
Now0        == 100
TaskExpires == 200
TaskIds     == {"T1", "T2"}
RunIds      == {0, 1}
NameA       == <<"public", "a">>
NameB       == <<"private", "b">>
NameC       == <<"publicity", "c">>
Names       == {NameA, NameB, NameC}
Keys        == TaskIds \X RunIds \X Names

Run0 == [state |-> "running", workerGroup |-> "wg", workerId |-> "wid",
         resolved |-> NoTime]
Task1 == [taskId |-> "T1", expires |-> TaskExpires, routes |-> <<"route">>,
          runs |-> <<Run0>>]

----------------------------------------------------------------------------
(* Requests *)

ExpiresInRange == {TaskExpires - i : i \in 0 .. NumExpires - 1}
ExpiresTooOld  == Now0 - past15 - 1
ExpiresTooLate == TaskExpires + 1

Urls     == {"https://host/" \o ToString(i) : i \in 1 .. NumVariants}
Messages == {"message " \o ToString(i) : i \in 1 .. NumVariants}

Body(st, ct, e, url, msg, reason) ==
  [storageType |-> st, contentType |-> ct, expires |-> e,
   url |-> url, message |-> msg, reason |-> reason]

\* the bodies the input schema admits, for a given set of expiration times
Bodies(E) ==
       {Body("s3", ct, e, Undef, Undef, Undef) :
          ct \in {Undef, "application/json", "text/plain"}, e \in E}
  \cup {Body("azure", ct, e, Undef, Undef, Undef) :
          ct \in {"text/plain"}, e \in E}
  \cup {Body("reference", ct, e, u, Undef, Undef) :
          ct \in {"text/plain"}, e \in E, u \in Urls}
  \cup {Body("error", Undef, e, Undef, m, "file-missing-on-worker") :
          e \in E, m \in Messages}

Request(t, r, n, b, sat) ==
  [taskId |-> t, runId |-> r, name |-> n, body |-> b, satisfies |-> sat]

\* requests on one artifact of a running run, by a caller with the scopes
CoreRequests ==
  {Request("T1", 0, NameA, b, TRUE) :
     b \in Bodies(ExpiresInRange)}

\* requests that differ from a core request in one respect
EdgeRequests ==
  LET b == Body("s3", "text/plain", TaskExpires, Undef, Undef, Undef) IN
    { Request("T2", 0, NameA, b, TRUE),
      Request("T1", 1, NameA, b, TRUE),
      Request("T1", 0, NameA, b, FALSE),
      Request("T1", 0, NameA, [b EXCEPT !.expires = ExpiresTooOld], TRUE),
      Request("T1", 0, NameA, [b EXCEPT !.expires = ExpiresTooLate], TRUE),
      Request("T1", 0, NameB, b, TRUE) }

Requests == CoreRequests \cup EdgeRequests

\* requests that race for one artifact: a reference and an s3 artifact of
\* one content type, with every expiration time and every url
RaceRequests ==
  {I \in CoreRequests :
     /\ I.body.storageType \in {"reference", "s3"}
     /\ I.body.contentType = "text/plain"}

\* the runs a task may have: a running one; one resolved exception a
\* minute less than, exactly, and a minute more than 25 minutes ago; a
\* completed one and a pending one
Run(state, resolved) ==
  [state |-> state, workerGroup |-> "wg", workerId |-> "wid",
   resolved |-> resolved]

ResolvedRuns ==
  {Run("exception", Now0 - m) : m \in {allow25 - 1, allow25, allow25 + 1}}
    \cup {Run("completed", Now0 - 1)}

PendingRun ==
  [state |-> "pending", workerGroup |-> Undef, workerId |-> Undef,
   resolved |-> NoTime]

\* the lists of runs of task T1: none, one run in each state, and a run
\* resolved exception a minute ago followed by a running one
RunLists ==
  {<<>>, <<Run0>>, <<PendingRun>>, <<Run("exception", Now0 - 1), Run0>>}
    \cup {<<r>> : r \in ResolvedRuns}

\* requests that pass or fail each check, in every combination: on a task
\* that exists or not, a run that exists or not, with and without the
\* scopes, with an expiration too old, in range and too late
EnvBodies ==
  {[b EXCEPT !.expires = e] :
     b \in {Body("s3", Undef, TaskExpires, Undef, Undef, Undef),
            Body("error", Undef, TaskExpires, Undef,
                 "message 1", "file-missing-on-worker")},
     e \in {ExpiresTooOld, TaskExpires, ExpiresTooLate}}

EnvRequests ==
  {Request(t, r, n, b, sat) :
     t \in TaskIds, r \in RunIds, n \in Names, b \in EnvBodies,
     sat \in BOOLEAN}

\* the regions a request may come from: none that is known, the region of
\* the artifacts, another one
NoRegion       == "<no region>"
ArtifactRegion == "us-west-2"
Regions        == {NoRegion, ArtifactRegion, "eu-central-1"}

\* the values of the header x-taskcluster-skip-cache, Undef when absent
SkipCacheHeaders == {Undef, "true", "TRUE", "True", "1", "false", "0", ""}

GetRequest(op, t, r, n, sat, region, header) ==
  [op |-> op, taskId |-> t, runId |-> r, name |-> n, satisfies |-> sat,
   region |-> region, skipCache |-> header]

\* requests for an artifact of a run: for every task, run and name, with
\* and without the scopes; and for the public artifact from every region
\* with every header
GetRequests ==
       {GetRequest("getArtifact", t, r, n, sat, ArtifactRegion, Undef) :
          t \in TaskIds, r \in RunIds, n \in Names, sat \in BOOLEAN}
  \cup {GetRequest("getArtifact", "T1", r, NameA, FALSE, g, h) :
          r \in RunIds, g \in Regions, h \in SkipCacheHeaders}

\* the same for the latest run, which the request does not name
GetLatestRequests ==
       {GetRequest("getLatestArtifact", t, Undef, n, sat, ArtifactRegion, Undef) :
          t \in TaskIds, n \in Names, sat \in BOOLEAN}
  \cup {GetRequest("getLatestArtifact", "T1", Undef, NameA, FALSE, g, h) :
          g \in Regions, h \in SkipCacheHeaders}

ListLatestRequests ==
  {GetRequest("listLatestArtifacts", t, Undef, Undef, TRUE, NoRegion, Undef) :
     t \in TaskIds}

\* the create requests that fill the table for the requests above: every
\* storage type under the public name, s3 under the others
StoreBodies ==
  { Body("s3", "text/plain", TaskExpires, Undef, Undef, Undef),
    Body("azure", "text/plain", TaskExpires, Undef, Undef, Undef),
    Body("reference", "text/plain", TaskExpires, "https://host/1", Undef, Undef),
    Body("error", Undef, TaskExpires, Undef, "message 1", "file-missing-on-worker") }

StoreRequests ==
  {I \in {Request("T1", r, n, b, TRUE) :
            r \in RunIds, n \in Names, b \in StoreBodies} :
     I.name = NameA \/ I.body.storageType = "s3"}

----------------------------------------------------------------------------
(* The handler's local values *)

\* the record of every request is kept under the name a
KeyButName(I) == <<I.taskId, I.runId, NameA>>

Key(I) == <<I.taskId, I.runId, I.name>>

\* input.contentType || 'application/json'
contentType(I) ==
  IF I.body.contentType = Undef THEN "application/json" ELSE I.body.contentType

\* new Date(input.expires)
expires(I) == I.body.expires

\* isPublic, were the "/" after "public" not asked for: /^public/.test(name)
isPublicPrefix(name) == Head(name) \in {"public", "publicity"}

\* /^public\//.test(name)
isPublic(name) == Len(name) >= 2 /\ Head(name) = "public"

\* details, were the bucket of a name that is not public left undefined
detailsButPrivateBucket(I) ==
  CASE I.body.storageType = "s3" ->
         [bucket |-> IF isPublic(I.name) THEN PublicBucketName ELSE Undef,
          prefix |-> <<I.taskId, I.runId>> \o I.name]
    [] I.body.storageType = "azure" ->
         [container |-> BlobContainer,
          path      |-> <<I.taskId, I.runId>> \o I.name]
    [] I.body.storageType = "reference" ->
         [url |-> I.body.url]
    [] I.body.storageType = "error" ->
         [message |-> I.body.message, reason |-> I.body.reason]
    [] OTHER -> NoEntity

\* the switch on storageType that constructs `details`
details(I) ==
  CASE I.body.storageType = "s3" ->
         [bucket |-> IF isPublic(I.name) THEN PublicBucketName
                                         ELSE PrivateBucketName,
          prefix |-> <<I.taskId, I.runId>> \o I.name]
    [] I.body.storageType = "azure" ->
         [container |-> BlobContainer,
          path      |-> <<I.taskId, I.runId>> \o I.name]
    [] I.body.storageType = "reference" ->
         [url |-> I.body.url]
    [] I.body.storageType = "error" ->
         [message |-> I.body.message, reason |-> I.body.reason]
    [] OTHER -> NoEntity

\* the properties handed to Artifact.create
NewArtifact(I) ==
  [taskId |-> I.taskId, runId |-> I.runId, name |-> I.name,
   storageType |-> I.body.storageType, contentType |-> contentType(I),
   details |-> details(I), expires |-> expires(I)]

\* task.runs[runId]
RunOf(t, runId) ==
  IF runId + 1 \in DOMAIN t.runs THEN t.runs[runId + 1] ELSE NoEntity

\* a run that is not running takes artifacts only when it was resolved
\* exception less than 25 minutes ago
allow(run) ==
  /\ run.state = "exception"
  /\ run.resolved # NoTime
  /\ run.resolved > now - allow25

Uploadable(run) == run.state = "running" \/ allow(run)

\* res.reportError(code, message, details)
reportError(code, message) == [code |-> code, message |-> message]

\* res.reply(body)
reply(body) == [code |-> "ok", body |-> body]

\* the response req.satisfies sends when the scopes do not suffice
AuthResponse == reportError("AuthorizationError", "scopes")

----------------------------------------------------------------------------
(* createArtifact *)

\* The request arrives: parameters and body are read and `expires` is
\* compared with the clock.
Begin(p, I) ==
  /\ req' = [req EXCEPT ![p] = I]
  /\ task' = [task EXCEPT ![p] = NoEntity]
  /\ artifact' = [artifact EXCEPT ![p] = NoEntity]
  /\ published' = [published EXCEPT ![p] = NoMessage]
  /\ auth' = [auth EXCEPT ![p] = NoParams]
  /\ IF expires(I) < now - past15
       THEN /\ res' = [res EXCEPT ![p] =
                         reportError("InputError", "Expires must be in the future")]
            /\ pc' = [pc EXCEPT ![p] = "done"]
       ELSE /\ res' = [res EXCEPT ![p] = NoResponse]
            /\ pc' = [pc EXCEPT ![p] = "loadTask"]
  /\ UNCHANGED <<now, tasks, artifacts>>

\* a request arrives at a handler that is free
NewRequest(p) ==
  /\ pc[p] = "idle"
  /\ \E I \in Requests : Begin(p, I)

\* a request of the racing kind arrives at a handler that is free
RaceRequest(p) ==
  /\ pc[p] = "idle"
  /\ \E I \in RaceRequests : Begin(p, I)

\* a request arrives, for whatever task and run, at a handler that is free
EnvRequest(p) ==
  /\ pc[p] = "idle"
  /\ \E I \in EnvRequests : Begin(p, I)

\* Preflight, were expires not compared with task.expires
PreflightButTaskExpires(I, t) ==
  IF t = NoEntity
    THEN reportError("InputError", "Task not found")
  ELSE IF RunOf(t, I.runId) = NoEntity
    THEN reportError("InputError", "Run not found")
  ELSE IF ~I.satisfies
    THEN AuthResponse
  ELSE IF ~Uploadable(RunOf(t, I.runId))
    THEN reportError("RequestConflict", "Artifacts cannot be created for a task after it is resolved")
  ELSE NoResponse

\* Preflight, were the scopes not checked
PreflightButAuth(I, t) ==
  IF t = NoEntity
    THEN reportError("InputError", "Task not found")
  ELSE IF RunOf(t, I.runId) = NoEntity
    THEN reportError("InputError", "Run not found")
  ELSE IF expires(I) > t.expires
    THEN reportError("InputError", "Artifact expires after the task expiration")
  ELSE IF ~Uploadable(RunOf(t, I.runId))
    THEN reportError("RequestConflict", "Artifacts cannot be created for a task after it is resolved")
  ELSE NoResponse

\* Preflight, were expires compared with task.expires before the scopes
\* are checked
PreflightExpiresFirst(I, t) ==
  IF t = NoEntity
    THEN reportError("InputError", "Task not found")
  ELSE IF RunOf(t, I.runId) = NoEntity
    THEN reportError("InputError", "Run not found")
  ELSE IF expires(I) > t.expires
    THEN reportError("InputError", "Artifact expires after the task expiration")
  ELSE IF ~I.satisfies
    THEN AuthResponse
  ELSE IF ~Uploadable(RunOf(t, I.runId))
    THEN reportError("RequestConflict", "Artifacts cannot be created for a task after it is resolved")
  ELSE NoResponse

\* the parameters req.satisfies is called with, once the task and the run
\* have been found
Satisfies(I, t) ==
  IF t = NoEntity \/ RunOf(t, I.runId) = NoEntity
    THEN NoParams
    ELSE [taskId |-> I.taskId, runId |-> I.runId,
          workerGroup |-> RunOf(t, I.runId).workerGroup,
          workerId |-> RunOf(t, I.runId).workerId,
          name |-> I.name]

\* what the checks between Task.load and Artifact.create answer: the error
\* response of the first check that fails, or NoResponse
Preflight(I, t) ==
  IF t = NoEntity
    THEN reportError("InputError", "Task not found")
  ELSE IF RunOf(t, I.runId) = NoEntity
    THEN reportError("InputError", "Run not found")
  ELSE IF ~I.satisfies
    THEN AuthResponse
  ELSE IF expires(I) > t.expires
    THEN reportError("InputError", "Artifact expires after the task expiration")
  ELSE IF ~Uploadable(RunOf(t, I.runId))
    THEN reportError("RequestConflict", "Artifacts cannot be created for a task after it is resolved")
  ELSE IF details(I) = NoEntity
    THEN reportError("InternalError", "Unknown storageType")
  ELSE NoResponse

\* Task.load answers; the task, the run, the scopes, the expiration and the
\* state of the run are checked and `details` is constructed.
LoadTask(p) ==
  /\ pc[p] = "loadTask"
  /\ LET r == Preflight(req[p], tasks[req[p].taskId]) IN
       IF r # NoResponse
         THEN /\ res' = [res EXCEPT ![p] = r]
              /\ task' = task
              /\ pc' = [pc EXCEPT ![p] = "done"]
         ELSE /\ res' = res
              /\ task' = [task EXCEPT ![p] = tasks[req[p].taskId]]
              /\ pc' = [pc EXCEPT ![p] = "create"]
  /\ auth' = [auth EXCEPT ![p] = Satisfies(req[p], tasks[req[p].taskId])]
  /\ UNCHANGED <<now, tasks, artifacts, req, artifact, published>>

\* Create, were the insert unconditional
CreateOrReplace(p) ==
  /\ pc[p] = "create"
  /\ artifacts' = [artifacts EXCEPT ![Key(req[p])] = NewArtifact(req[p])]
  /\ artifact' = [artifact EXCEPT ![p] = NewArtifact(req[p])]
  /\ pc' = [pc EXCEPT ![p] = "publish"]
  /\ UNCHANGED <<now, tasks, req, task, published, res, auth>>

\* Artifact.create: a conditional insert.  It answers the new entity, or
\* fails with EntityAlreadyExists, which the handler catches.
Create(p) ==
  /\ pc[p] = "create"
  /\ LET k == Key(req[p]) IN
       IF artifacts[k] = NoEntity
         THEN /\ artifacts' = [artifacts EXCEPT ![k] = NewArtifact(req[p])]
              /\ artifact' = [artifact EXCEPT ![p] = NewArtifact(req[p])]
              /\ pc' = [pc EXCEPT ![p] = "publish"]
         ELSE /\ UNCHANGED <<artifacts, artifact>>
              /\ pc' = [pc EXCEPT ![p] = "load"]
  /\ UNCHANGED <<now, tasks, req, task, published, res, auth>>

\* Differs, were a later expiration of the existing artifact no conflict
DiffersButExpires(a, I) ==
  \/ a.storageType # I.body.storageType
  \/ a.contentType # contentType(I)

\* Differs, were the content type not compared
DiffersButContentType(a, I) ==
  \/ a.storageType # I.body.storageType
  \/ a.expires > expires(I)

\* Differs, were an equal expiration a conflict too
DiffersOrSameExpires(a, I) ==
  \/ a.storageType # I.body.storageType
  \/ a.contentType # contentType(I)
  \/ a.expires >= expires(I)

\* the existing artifact is another artifact, or expires later
Differs(a, I) ==
  \/ a.storageType # I.body.storageType
  \/ a.contentType # contentType(I)
  \/ a.expires > expires(I)

\* DetailsDiffer, were the details of an error artifact exempt as well
DetailsDifferButError(a, I) ==
  /\ I.body.storageType \notin {"reference", "error"}
  /\ a.details # details(I)

\* DetailsDiffer, were the url of a reference artifact compared too
DetailsDifferAlways(a, I) == a.details # details(I)

\* the details of the existing artifact do not match
DetailsDiffer(a, I) ==
  /\ I.body.storageType # "reference"
  /\ a.details # details(I)

Conflict == reportError("RequestConflict", "Artifact already exists")

\* Artifact.load answers the existing entity, which is compared with the
\* request.
Load(p) ==
  /\ pc[p] = "load"
  /\ LET a == artifacts[Key(req[p])] IN
       IF Differs(a, req[p]) \/ DetailsDiffer(a, req[p])
         THEN /\ res' = [res EXCEPT ![p] = Conflict]
              /\ artifact' = artifact
              /\ task' = [task EXCEPT ![p] = NoEntity]
              /\ pc' = [pc EXCEPT ![p] = "done"]
         ELSE /\ res' = res
              /\ artifact' = [artifact EXCEPT ![p] = a]
              /\ task' = task
              /\ pc' = [pc EXCEPT ![p] = "modify"]
  /\ UNCHANGED <<now, tasks, artifacts, req, published, auth>>

\* Modifier, were expires alone assigned
ModifierButDetails(a, I) == [a EXCEPT !.expires = expires(I)]

\* the modifier handed to artifact.modify
Modifier(a, I) == [a EXCEPT !.expires = expires(I), !.details = details(I)]

\* Modify, were the message published on the insert path alone
ModifyAndReply(p) ==
  /\ pc[p] = "modify"
  /\ LET k == Key(req[p])
         a == Modifier(artifacts[k], req[p]) IN
       /\ artifacts' = [artifacts EXCEPT ![k] = a]
       /\ artifact' = [artifact EXCEPT ![p] = a]
  /\ pc' = [pc EXCEPT ![p] = "reply"]
  /\ UNCHANGED <<now, tasks, req, task, published, res, auth>>

\* artifact.modify: the modifier is applied to the entity as stored (the
\* write is conditional on the entity's version and is repeated on the
\* reloaded entity until it takes), and the object in memory follows.
Modify(p) ==
  /\ pc[p] = "modify"
  /\ LET k == Key(req[p])
         a == Modifier(artifacts[k], req[p]) IN
       /\ artifacts' = [artifacts EXCEPT ![k] = a]
       /\ artifact' = [artifact EXCEPT ![p] = a]
  /\ pc' = [pc EXCEPT ![p] = "publish"]
  /\ UNCHANGED <<now, tasks, req, task, published, res, auth>>

\* task.status()
TaskStatus(t) ==
  [taskId |-> t.taskId,
   runs   |-> [i \in DOMAIN t.runs |-> t.runs[i].state]]

\* artifact.json()
ArtifactJson(a) ==
  [storageType |-> a.storageType, name |-> a.name, expires |-> a.expires,
   contentType |-> a.contentType]

\* the message about the creation of the artifact
Message(I, t, a) ==
  [status      |-> TaskStatus(t),
   artifact    |-> ArtifactJson(a),
   workerGroup |-> RunOf(t, I.runId).workerGroup,
   workerId    |-> RunOf(t, I.runId).workerId,
   runId       |-> I.runId,
   routes      |-> t.routes]

\* publisher.artifactCreated
Publish(p) ==
  /\ pc[p] = "publish"
  /\ published' = [published EXCEPT ![p] = Message(req[p], task[p], artifact[p])]
  /\ pc' = [pc EXCEPT ![p] = "reply"]
  /\ UNCHANGED <<now, tasks, artifacts, req, task, artifact, res, auth>>

\* the answer to a request whose handler threw: publisher.artifactCreated
\* failed
PublishFailed == reportError("InternalError", "publisher.artifactCreated failed")

\* PublishFails, were the error of the publisher swallowed
PublishFailsButGoesOn(p) ==
  /\ pc[p] = "publish"
  /\ pc' = [pc EXCEPT ![p] = "reply"]
  /\ UNCHANGED <<now, tasks, artifacts, req, task, artifact, published, res, auth>>

\* publisher.artifactCreated fails: the handler throws at its await and
\* the request is answered with a server error
PublishFails(p) ==
  /\ pc[p] = "publish"
  /\ res' = [res EXCEPT ![p] = PublishFailed]
  /\ task' = [task EXCEPT ![p] = NoEntity]
  /\ artifact' = [artifact EXCEPT ![p] = NoEntity]
  /\ pc' = [pc EXCEPT ![p] = "done"]
  /\ UNCHANGED <<now, tasks, artifacts, req, published, auth>>

\* no response: the handler was aborted while it waited at `at`
Aborted(at) == [code |-> "aborted", at |-> at]

\* the client disconnects and the handler is aborted at the await it is
\* suspended at; nothing it has written is undone
Abort(p) ==
  /\ pc[p] \in {"loadTask", "create", "load", "modify", "publish", "reply"}
  /\ res' = [res EXCEPT ![p] = Aborted(pc[p])]
  /\ task' = [task EXCEPT ![p] = NoEntity]
  /\ artifact' = [artifact EXCEPT ![p] = NoEntity]
  /\ pc' = [pc EXCEPT ![p] = "done"]
  /\ UNCHANGED <<now, tasks, artifacts, req, published, auth>>

\* the bucket object the put URL is asked of: null, then publicBucket when
\* the names match, then privateBucket when the names match
ReplyBucket(a) ==
  IF a.details.bucket = PrivateBucketName THEN "privateBucket"
  ELSE IF a.details.bucket = PublicBucketName THEN "publicBucket"
  ELSE Undef

\* the body of the reply, by the storageType of the artifact
ReplyBody(I, a) ==
  CASE a.storageType = "s3" ->
         [storageType |-> "s3", contentType |-> a.contentType,
          expires |-> now + putUrlMinutes,
          putUrl  |-> <<ReplyBucket(a), a.details.prefix, a.contentType>>]
    [] a.storageType = "azure" ->
         [storageType |-> "azure", contentType |-> a.contentType,
          expires |-> now + putUrlMinutes,
          putUrl  |-> <<BlobContainer, a.details.path, now + putUrlMinutes>>]
    [] OTHER ->
         [storageType |-> I.body.storageType]

\* the reply: a put URL for s3 and azure, the storageType alone otherwise
Reply(p) ==
  /\ pc[p] = "reply"
  /\ res' = [res EXCEPT ![p] =
       IF artifact[p].storageType = "s3" /\ ReplyBucket(artifact[p]) = Undef
         THEN reportError("InternalError", "bucket is null")
       ELSE IF artifact[p].storageType \notin {"s3", "azure", "reference", "error"}
         THEN reportError("InternalError", "Unknown storageType")
       ELSE reply(ReplyBody(req[p], artifact[p]))]
  /\ task' = [task EXCEPT ![p] = NoEntity]
  /\ artifact' = [artifact EXCEPT ![p] = NoEntity]
  /\ pc' = [pc EXCEPT ![p] = "done"]
  /\ UNCHANGED <<now, tasks, artifacts, req, published, auth>>

----------------------------------------------------------------------------
(* getArtifact, getLatestArtifact, listLatestArtifacts *)

\* a create request of the kind that fills the table arrives
StoreRequest(p) ==
  /\ pc[p] = "idle"
  /\ \E I \in StoreRequests : Begin(p, I)

\* res.redirect(303, url)
redirect(url) == [code |-> "redirect", status |-> 303, url |-> url]

\* res.status(403).json(body)
json403(body) == [code |-> "json", status |-> 403, body |-> body]

\* (req.headers['x-taskcluster-skip-cache'] || '').toLowerCase()
skipCacheHeader(I) ==
  CASE I.skipCache = Undef -> ""
    [] I.skipCache \in {"TRUE", "True"} -> "true"
    [] OTHER -> I.skipCache

\* publicBucket.createGetUrl(prefix, forceS3): the cloud-front URL, or the
\* URL of the bucket in its region when forceS3
createGetUrl(prefix, forceS3) ==
  [kind |-> IF forceS3 THEN "s3" ELSE "cloud-front",
   bucket |-> PublicBucketName, prefix |-> prefix]

\* PublicUrl, were the region of the artifacts looked at before the header
PublicUrlRegionFirst(I, prefix) ==
  IF I.region = NoRegion
    THEN createGetUrl(prefix, FALSE)
  ELSE IF ArtifactRegion = I.region
    THEN createGetUrl(prefix, TRUE)
  ELSE IF skipCacheHeader(I) = "true" \/ skipCacheHeader(I) = "1"
    THEN createGetUrl(prefix, FALSE)
  ELSE [kind |-> "cloud-mirror",
        path |-> <<"v1", "redirect", "s3", I.region,
                   [encoded |-> createGetUrl(prefix, TRUE)]>>]

\* the URL a public s3 artifact is served from, by region and header
PublicUrl(I, prefix) ==
  IF I.region = NoRegion
    THEN createGetUrl(prefix, FALSE)
  ELSE IF skipCacheHeader(I) = "true" \/ skipCacheHeader(I) = "1"
    THEN createGetUrl(prefix, FALSE)
  ELSE IF ArtifactRegion = I.region
    THEN createGetUrl(prefix, TRUE)
  ELSE [kind |-> "cloud-mirror",
        path |-> <<"v1", "redirect", "s3", I.region,
                   [encoded |-> createGetUrl(prefix, TRUE)]>>]

\* the URL of an s3 artifact; Undef (null) when its bucket is neither
S3Url(I, a) ==
  IF a.details.bucket = PublicBucketName
    THEN PublicUrl(I, a.details.prefix)
  ELSE IF a.details.bucket = PrivateBucketName
    THEN [kind |-> "signed", bucket |-> PrivateBucketName,
          prefix |-> a.details.prefix, expires |-> putUrlMinutes]
  ELSE [kind |-> Undef]

\* ArtifactResponse, were error artifacts not handled
ArtifactResponseButError(I, a) ==
  IF a = NoEntity
    THEN reportError("ResourceNotFound", "Artifact not found")
  ELSE IF a.storageType = "s3"
    THEN redirect(S3Url(I, a))
  ELSE IF a.storageType = "azure"
    THEN redirect([kind |-> "blob-signed", path |-> a.details.path,
                   expiry |-> now + putUrlMinutes])
  ELSE IF a.storageType = "reference"
    THEN redirect([kind |-> "reference", href |-> a.details.url])
  ELSE NoResponse

\* what replyWithArtifact answers for the artifact loaded
ArtifactResponse(I, a) ==
  IF a = NoEntity
    THEN reportError("ResourceNotFound", "Artifact not found")
  ELSE IF a.storageType = "s3"
    THEN IF S3Url(I, a).kind = Undef
           THEN reportError("InternalError", "Url should have been constructed!")
           ELSE redirect(S3Url(I, a))
  ELSE IF a.storageType = "azure"
    THEN redirect([kind |-> "blob-signed", path |-> a.details.path,
                   expiry |-> now + putUrlMinutes])
  ELSE IF a.storageType = "reference"
    THEN redirect([kind |-> "reference", href |-> a.details.url])
  ELSE IF a.storageType = "error"
    THEN json403([reason |-> a.details.reason, message |-> a.details.message])
  ELSE NoResponse

\* Authorize, were the handler to go on whatever req.satisfies answers
AuthorizeAndGoOn(p, I, next) ==
  /\ req' = [req EXCEPT ![p] = I]
  /\ auth' = [auth EXCEPT ![p] =
                IF isPublic(I.name) THEN NoParams ELSE [name |-> I.name]]
  /\ res' = [res EXCEPT ![p] = NoResponse]
  /\ pc' = [pc EXCEPT ![p] = next]
  /\ UNCHANGED <<now, tasks, artifacts, task, artifact, published>>

\* the start of getArtifact and of getLatestArtifact: unless the name is
\* public, req.satisfies({name}) decides whether the handler goes on
Authorize(p, I, next) ==
  /\ req' = [req EXCEPT ![p] = I]
  /\ IF isPublic(I.name)
       THEN /\ auth' = [auth EXCEPT ![p] = NoParams]
            /\ res' = [res EXCEPT ![p] = NoResponse]
            /\ pc' = [pc EXCEPT ![p] = next]
       ELSE /\ auth' = [auth EXCEPT ![p] = [name |-> I.name]]
            /\ IF I.satisfies
                 THEN /\ res' = [res EXCEPT ![p] = NoResponse]
                      /\ pc' = [pc EXCEPT ![p] = next]
                 ELSE /\ res' = [res EXCEPT ![p] = AuthResponse]
                      /\ pc' = [pc EXCEPT ![p] = "done"]
  /\ UNCHANGED <<now, tasks, artifacts, task, artifact, published>>

\* getArtifact, up to the Artifact.load of replyWithArtifact
GetArtifact(p) ==
  /\ pc[p] = "idle"
  /\ \E I \in GetRequests : Authorize(p, I, "loadArtifact")

\* getLatestArtifact, up to its Task.load
GetLatestArtifact(p) ==
  /\ pc[p] = "idle"
  /\ \E I \in GetLatestRequests : Authorize(p, I, "loadLatest")

\* listLatestArtifacts, up to its Task.load
ListLatestArtifacts(p) ==
  /\ pc[p] = "idle"
  /\ \E I \in ListLatestRequests :
       /\ req' = [req EXCEPT ![p] = I]
       /\ pc' = [pc EXCEPT ![p] = "loadLatest"]
  /\ UNCHANGED <<now, tasks, artifacts, task, artifact, published, res, auth>>

\* Task.load answers, in getLatestArtifact and listLatestArtifacts: the
\* task must exist and have runs
LoadLatest(p) ==
  /\ pc[p] = "loadLatest"
  /\ LET t == tasks[req[p].taskId] IN
       IF t = NoEntity
         THEN /\ res' = [res EXCEPT ![p] =
                           reportError("ResourceNotFound", "Task not found")]
              /\ pc' = [pc EXCEPT ![p] = "done"]
              /\ task' = task
       ELSE IF Len(t.runs) = 0
         THEN /\ res' = [res EXCEPT ![p] =
                           reportError("ResourceNotFound", "Task doesn't have any runs")]
              /\ pc' = [pc EXCEPT ![p] = "done"]
              /\ task' = task
         ELSE /\ res' = res
              /\ task' = [task EXCEPT ![p] = t]
              /\ pc' = [pc EXCEPT ![p] =
                          IF req[p].op = "listLatestArtifacts"
                            THEN "query" ELSE "loadArtifact"]
  /\ UNCHANGED <<now, tasks, artifacts, req, artifact, published, auth>>

\* runId, were the latest run taken to be task.runs.length
runIdLength(p) ==
  IF req[p].op = "getArtifact" THEN req[p].runId ELSE Len(task[p].runs)

\* the run the handler reads artifacts of: the one the request names, or
\* the highest of the task loaded, task.runs.length - 1
runId(p) ==
  IF req[p].op = "getArtifact" THEN req[p].runId ELSE Len(task[p].runs) - 1

\* Artifact.load(key, true): the entity stored under the key, or null
ArtifactLoad(k) == IF k \in Keys THEN artifacts[k] ELSE NoEntity

\* replyWithArtifact: Artifact.load answers and the response follows
ReplyWithArtifact(p) ==
  /\ pc[p] = "loadArtifact"
  /\ res' = [res EXCEPT ![p] =
       ArtifactResponse(req[p],
                        ArtifactLoad(<<req[p].taskId, runId(p), req[p].name>>))]
  /\ task' = [task EXCEPT ![p] = NoEntity]
  /\ pc' = [pc EXCEPT ![p] = "done"]
  /\ UNCHANGED <<now, tasks, artifacts, req, artifact, published, auth>>

\* Artifact.query({taskId, runId}) answers and the list is the reply
Query(p) ==
  /\ pc[p] = "query"
  /\ res' = [res EXCEPT ![p] =
       reply([artifacts |->
                {ArtifactJson(artifacts[k]) :
                   k \in {k \in Keys : /\ k[1] = req[p].taskId
                                       /\ k[2] = runId(p)
                                       /\ artifacts[k] # NoEntity}}])]
  /\ task' = [task EXCEPT ![p] = NoEntity]
  /\ pc' = [pc EXCEPT ![p] = "done"]
  /\ UNCHANGED <<now, tasks, artifacts, req, artifact, published, auth>>

----------------------------------------------------------------------------
(* listArtifacts *)

\* requests for the list of the artifacts of a run, for every task and run
ListRequests ==
  {GetRequest("listArtifacts", t, r, Undef, TRUE, NoRegion, Undef) :
     t \in TaskIds, r \in RunIds}

\* listArtifacts, up to its Promise.all of Task.load and Artifact.query
ListArtifacts(p) ==
  /\ pc[p] = "idle"
  /\ \E I \in ListRequests :
       /\ req' = [req EXCEPT ![p] = I]
       /\ pc' = [pc EXCEPT ![p] = "list"]
  /\ UNCHANGED <<now, tasks, artifacts, task, artifact, published, res, auth>>

\* what Artifact.query({taskId, runId}) answers, each entry as its json
QueryEntries(t, r) ==
  {ArtifactJson(artifacts[k]) :
     k \in {k \in Keys : k[1] = t /\ k[2] = r /\ artifacts[k] # NoEntity}}

\* the response of listArtifacts once the task and the entries are there
ListReply(I, t, entries) ==
  IF t = NoEntity
    THEN reportError("ResourceNotFound", "No task with taskId found")
  ELSE IF RunOf(t, I.runId) = NoEntity
    THEN reportError("ResourceNotFound", "Task with taskId: run with runId")
  ELSE reply([artifacts |-> entries])

\* Task.load answers, before or after Artifact.query; the response is
\* sent when both have answered
ListTaskLoad(p) ==
  /\ pc[p] \in {"list", "listQuery"}
  /\ IF pc[p] = "list"
       THEN /\ task' = [task EXCEPT ![p] = tasks[req[p].taskId]]
            /\ pc' = [pc EXCEPT ![p] = "listTask"]
            /\ UNCHANGED <<artifact, res>>
       ELSE /\ res' = [res EXCEPT ![p] =
                 ListReply(req[p], tasks[req[p].taskId], artifact[p].entries)]
            /\ artifact' = [artifact EXCEPT ![p] = NoEntity]
            /\ task' = task
            /\ pc' = [pc EXCEPT ![p] = "done"]
  /\ UNCHANGED <<now, tasks, artifacts, req, published, auth>>

\* Artifact.query answers, before or after Task.load
ListQuery(p) ==
  /\ pc[p] \in {"list", "listTask"}
  /\ IF pc[p] = "list"
       THEN /\ artifact' = [artifact EXCEPT ![p] =
                 [entries |-> QueryEntries(req[p].taskId, req[p].runId)]]
            /\ pc' = [pc EXCEPT ![p] = "listQuery"]
            /\ UNCHANGED <<task, res>>
       ELSE /\ res' = [res EXCEPT ![p] =
                 ListReply(req[p], task[p],
                           QueryEntries(req[p].taskId, req[p].runId))]
            /\ task' = [task EXCEPT ![p] = NoEntity]
            /\ artifact' = artifact
            /\ pc' = [pc EXCEPT ![p] = "done"]
  /\ UNCHANGED <<now, tasks, artifacts, req, published, auth>>

----------------------------------------------------------------------------
(* The Task table *)

\* the queue resolves the running run of a task, while requests for its
\* artifacts may be in flight
ResolveRun ==
  /\ \E t \in TaskIds : \E state \in {"completed", "failed", "exception"} :
       /\ tasks[t] # NoEntity
       /\ Len(tasks[t].runs) > 0
       /\ tasks[t].runs[Len(tasks[t].runs)].state = "running"
       /\ tasks' = [tasks EXCEPT ![t].runs[Len(tasks[t].runs)] =
                      [@ EXCEPT !.state = state, !.resolved = now]]
  /\ UNCHANGED <<now, artifacts, pc, req, task, artifact, published, res, auth>>

----------------------------------------------------------------------------
(* Specifications *)

Init ==
  /\ now = Now0
  /\ tasks = [t \in TaskIds |-> IF t = "T1" THEN Task1 ELSE NoEntity]
  /\ artifacts = [k \in Keys |-> NoEntity]
  /\ pc = [p \in AllWorkers |-> "idle"]
  /\ req = [p \in AllWorkers |-> NoRequest]
  /\ task = [p \in AllWorkers |-> NoEntity]
  /\ artifact = [p \in AllWorkers |-> NoEntity]
  /\ published = [p \in AllWorkers |-> NoMessage]
  /\ res = [p \in AllWorkers |-> NoResponse]
  /\ auth = [p \in AllWorkers |-> NoParams]

\* the response has been delivered and the handler is free for the next
\* request
Return(p) ==
  /\ pc[p] = "done"
  /\ pc' = [pc EXCEPT ![p] = "idle"]
  /\ req' = [req EXCEPT ![p] = NoRequest]
  /\ res' = [res EXCEPT ![p] = NoResponse]
  /\ published' = [published EXCEPT ![p] = NoMessage]
  /\ auth' = [auth EXCEPT ![p] = NoParams]
  /\ UNCHANGED <<now, tasks, artifacts, task, artifact>>

\* the steps of a request once it has arrived
Step(p) ==
  \/ LoadTask(p)
  \/ Create(p)
  \/ Load(p)
  \/ Modify(p)
  \/ Publish(p)
  \/ Reply(p)

\* the same, with task T1 having any of the lists of runs
InitEnv ==
  /\ now = Now0
  /\ \E runs \in RunLists :
       tasks = [t \in TaskIds |->
                  IF t = "T1" THEN [Task1 EXCEPT !.runs = runs] ELSE NoEntity]
  /\ artifacts = [k \in Keys |-> NoEntity]
  /\ pc = [p \in AllWorkers |-> "idle"]
  /\ req = [p \in AllWorkers |-> NoRequest]
  /\ task = [p \in AllWorkers |-> NoEntity]
  /\ artifact = [p \in AllWorkers |-> NoEntity]
  /\ published = [p \in AllWorkers |-> NoMessage]
  /\ res = [p \in AllWorkers |-> NoResponse]
  /\ auth = [p \in AllWorkers |-> NoParams]

\* two handlers, each serving request after request, interleaved
Next == \E p \in Workers : NewRequest(p) \/ Step(p) \/ Return(p)

Spec == Init /\ [][Next]_vars

\* three requests that race for one artifact, one per handler, interleaved
NextOnce == \E p \in AllWorkers : RaceRequest(p) \/ Step(p)

SpecOnce == Init /\ [][NextOnce]_vars

\* no request is being handled by a handler other than p
Alone(p) == \A q \in AllWorkers \ {p} : pc[q] \in {"idle", "done"}

\* two requests, one per handler, the second after the first has returned
NextSeq ==
  \E p \in Workers :
    \/ Alone(p) /\ NewRequest(p)
    \/ Alone(p) /\ LoadTask(p)
    \/ Alone(p) /\ Create(p)
    \/ Alone(p) /\ Load(p)
    \/ Alone(p) /\ Modify(p)
    \/ Alone(p) /\ Publish(p)
    \/ Alone(p) /\ Reply(p)

SpecSeq == Init /\ [][NextSeq]_vars

\* one handler serving request after request of any kind, on a task with
\* any list of runs
NextEnv == EnvRequest("w1") \/ Step("w1") \/ Return("w1")

SpecEnv == InitEnv /\ [][NextEnv]_vars

\* one handler serving create and get requests, one after the other, on a
\* task with any list of runs
NextGet ==
  \/ StoreRequest("w1")
  \/ Step("w1")
  \/ GetArtifact("w1")
  \/ GetLatestArtifact("w1")
  \/ ListLatestArtifacts("w1")
  \/ LoadLatest("w1")
  \/ ReplyWithArtifact("w1")
  \/ Query("w1")
  \/ Return("w1")

SpecGet == InitEnv /\ [][NextGet]_vars

\* a request of the core kind arrives at a handler that is free
CoreRequest(p) ==
  /\ pc[p] = "idle"
  /\ \E I \in CoreRequests : Begin(p, I)

\* two handlers, each serving request after request for one artifact,
\* interleaved, where the publisher may fail and a handler may be aborted
NextFaults ==
  \E p \in Workers :
    \/ CoreRequest(p)
    \/ Step(p)
    \/ PublishFails(p)
    \/ Abort(p)
    \/ Return(p)

SpecFaults == Init /\ [][NextFaults]_vars

\* the core requests for an s3, a reference and an error artifact of one
\* content type, one url and one message: one per expiration time
TypeRequests ==
  {I \in CoreRequests :
     /\ I.body.storageType \in {"s3", "reference", "error"}
     /\ I.body.url \in {Undef, "https://host/1"}
     /\ I.body.message \in {Undef, "message 1"}
     /\ contentType(I) = "text/plain" \/ I.body.storageType = "error"}

\* a request of that kind arrives at a handler that is free
TypeRequest(p) ==
  /\ pc[p] = "idle"
  /\ \E I \in TypeRequests : Begin(p, I)

\* three requests for one artifact, one per handler and one after the
\* other, where the publisher may fail and a handler may be aborted
NextFaultsSeq ==
  \E p \in AllWorkers :
    \/ Alone(p) /\ TypeRequest(p)
    \/ Alone(p) /\ LoadTask(p)
    \/ Alone(p) /\ Create(p)
    \/ Alone(p) /\ Load(p)
    \/ Alone(p) /\ Modify(p)
    \/ Alone(p) /\ Publish(p)
    \/ Alone(p) /\ Reply(p)
    \/ Alone(p) /\ PublishFails(p)
    \/ Alone(p) /\ Abort(p)

SpecFaultsSeq == Init /\ [][NextFaultsSeq]_vars

\* the same two handlers over one request per storage type, while the run
\* of the task may be resolved at any moment
NextResolve ==
  \/ \E p \in Workers : TypeRequest(p) \/ Step(p) \/ Return(p)
  \/ ResolveRun

SpecResolve == Init /\ [][NextResolve]_vars

\* two create requests of the racing kind, one per handler and one after
\* the other, where the publisher may fail, and between and after them a
\* third handler serving getArtifact requests
NextRef ==
  \/ \E p \in Workers :
       \/ Alone(p) /\ RaceRequest(p)
       \/ Alone(p) /\ LoadTask(p)
       \/ Alone(p) /\ Create(p)
       \/ Alone(p) /\ Load(p)
       \/ Alone(p) /\ Modify(p)
       \/ Alone(p) /\ Publish(p)
       \/ Alone(p) /\ PublishFails(p)
       \/ Alone(p) /\ Reply(p)
  \/ Alone("w3") /\ GetArtifact("w3")
  \/ Alone("w3") /\ ReplyWithArtifact("w3")
  \/ Return("w3")

SpecRef == Init /\ [][NextRef]_vars

\* a handler serving create requests and a handler serving get and list
\* requests, interleaved
NextAll ==
  \/ StoreRequest("w1")
  \/ Step("w1")
  \/ Return("w1")
  \/ GetArtifact("w2")
  \/ GetLatestArtifact("w2")
  \/ ListLatestArtifacts("w2")
  \/ LoadLatest("w2")
  \/ ReplyWithArtifact("w2")
  \/ Query("w2")
  \/ ListArtifacts("w2")
  \/ ListTaskLoad("w2")
  \/ ListQuery("w2")
  \/ Return("w2")

SpecAll == Init /\ [][NextAll]_vars

----------------------------------------------------------------------------
(* Properties *)

Done(p) == pc[p] = "done"
Ok(p)   == pc[p] = "done" /\ res[p].code = "ok"
Conflicted(p) == pc[p] = "done" /\ res[p].code = "RequestConflict"

\* the request passes every check made before Artifact.create
Valid(I) ==
  /\ ~(expires(I) < now - past15)
  /\ Preflight(I, tasks[I.taskId]) = NoResponse

\* the reply without its put URL and the time the put URL expires at
ReplyCore(r) ==
  [storageType |-> r.body.storageType,
   contentType |-> IF r.body.storageType \in {"s3", "azure"}
                     THEN r.body.contentType ELSE Undef]

\* the Artifact table holds a, under the key of I, and nothing else
OnlyRecord(I, a) ==
  \A k \in Keys : artifacts[k] = IF k = Key(I) THEN a ELSE NoEntity

\* C1: when a valid request is made twice, the second call after the first
\* has returned and on an artifact that did not exist, the first call
\* succeeds and leaves exactly the record it inserted, and the second call
\* succeeds too, with the same reply, and leaves that one record as it was.
C1_Idempotent ==
  \A p \in Workers : \A q \in Workers \ {p} :
    /\ (Done(p) /\ Valid(req[p]) /\ pc[q] = "idle") =>
         /\ Ok(p)
         /\ OnlyRecord(req[p], NewArtifact(req[p]))
    /\ (Done(p) /\ Done(q) /\ Valid(req[p]) /\ req[q] = req[p]) =>
         /\ Ok(p) /\ Ok(q)
         /\ ReplyCore(res[p]) = ReplyCore(res[q])
         /\ OnlyRecord(req[p], NewArtifact(req[p]))

\* C1: the same request has been made twice and has succeeded twice, for
\* an s3 artifact.
C1_Witness ==
  /\ Ok("w1") /\ Ok("w2")
  /\ req["w1"] = req["w2"]
  /\ req["w1"].body.storageType = "s3"
  /\ artifacts[Key(req["w1"])] = NewArtifact(req["w1"])

\* C2: no step lowers the expires of a stored artifact.
C2_ExpiresNeverDecreases ==
  [][\A k \in Keys :
       artifacts[k] # NoEntity =>
         /\ artifacts'[k] # NoEntity
         /\ artifacts'[k].expires >= artifacts[k].expires]_vars

\* the requests of the handlers in W that have arrived ask for the same
\* artifact: one key, one storageType, one contentType, the same details
SameArtifact(W) ==
  \A p \in W : \A q \in W :
    (req[p] # NoRequest /\ req[q] # NoRequest) =>
      /\ Key(req[p]) = Key(req[q])
      /\ req[p].body.storageType = req[q].body.storageType
      /\ contentType(req[p]) = contentType(req[q])
      /\ details(req[p]) = details(req[q])

Max(S) == CHOOSE x \in S : \A y \in S : y <= x

\* C3: when requests for the same artifact that differ in expires alone
\* have all returned, the stored expires is the greatest expires of those
\* that succeeded.
C3_FinalExpiresIsMax ==
  ((\A p \in AllWorkers : Done(p)) /\ SameArtifact(AllWorkers)) =>
    LET S == {p \in AllWorkers : Ok(p)}
        k == Key(req["w1"]) IN
      S # {} =>
        /\ artifacts[k] # NoEntity
        /\ artifacts[k].expires = Max({expires(req[p]) : p \in S})

\* requests I and J ask for the same artifact, the url of a reference
\* artifact and the expires apart
Compatible(I, J) ==
  /\ Key(I) = Key(J)
  /\ I.body.storageType = J.body.storageType
  /\ contentType(I) = contentType(J)
  /\ (I.body.storageType = "reference" \/ details(I) = details(J))

\* p and q have served two such requests and no other request was made
Pair(p, q) ==
  /\ p # q
  /\ Done(p) /\ Done(q)
  /\ \A r \in AllWorkers \ {p, q} : pc[r] = "idle"
  /\ Compatible(req[p], req[q])

\* C4, as claimed: two concurrent requests for the same artifact, whose
\* expires may differ, both succeed.
C4_BothSucceed ==
  \A p \in AllWorkers : \A q \in AllWorkers :
    Pair(p, q) => (Ok(p) /\ Ok(q))

\* C4, amended: of two concurrent requests for the same artifact, the one
\* whose expires is not the earlier succeeds (both, when the expires are
\* equal), and the other one succeeds or is answered RequestConflict.
C4_LaterSucceeds ==
  \A p \in AllWorkers : \A q \in AllWorkers :
    Pair(p, q) =>
      /\ (expires(req[p]) >= expires(req[q])) => Ok(p)
      /\ Ok(q) \/ Conflicted(q)

\* C4: two concurrent requests for a reference artifact, with the same
\* expires and two urls, have both succeeded.
C4_Witness ==
  /\ Pair("w1", "w2")
  /\ Ok("w1") /\ Ok("w2")
  /\ expires(req["w1"]) = expires(req["w2"])
  /\ req["w1"].body.storageType = "reference"
  /\ req["w1"].body.url # req["w2"].body.url

\* the stored artifact a is the artifact request I asks for
Matches(a, I) ==
  /\ a.storageType = I.body.storageType
  /\ a.contentType = contentType(I)
  /\ (I.body.storageType = "reference" \/ a.details = details(I))

\* C5: two requests for one key that have both succeeded do not conflict
\* in storageType, contentType or details (so of requests that conflict
\* with one another at most one succeeds), and a valid request that
\* conflicts with the stored artifact is answered RequestConflict.
C5_OneWinner ==
  /\ \A p \in Workers : \A q \in Workers :
       (Ok(p) /\ Ok(q) /\ Key(req[p]) = Key(req[q])) =>
         Compatible(req[p], req[q])
  /\ \A p \in Workers :
       (/\ Done(p) /\ Valid(req[p])
        /\ artifacts[Key(req[p])] # NoEntity
        /\ ~Matches(artifacts[Key(req[p])], req[p])) => Conflicted(p)

\* C5: of two requests for one key with different error messages one has
\* succeeded and the other has been answered RequestConflict.
C5_Witness ==
  /\ Ok("w1") /\ Conflicted("w2")
  /\ Key(req["w1"]) = Key(req["w2"])
  /\ req["w1"].body.storageType = "error"
  /\ req["w2"].body.storageType = "error"
  /\ req["w1"].body.message # req["w2"].body.message

\* the artifact request p asks for is stored with another storageType or
\* another contentType
TypeMismatch(p) ==
  /\ req[p] # NoRequest
  /\ artifacts[Key(req[p])] # NoEntity
  /\ \/ artifacts[Key(req[p])].storageType # req[p].body.storageType
     \/ artifacts[Key(req[p])].contentType # contentType(req[p])

\* C6: a request for an artifact that is stored with another storageType
\* or contentType never reaches the modify, publishes nothing, is not
\* answered with a success, is answered RequestConflict when it is valid,
\* and none of its steps changes the Artifact table.
C6_TypeConflict ==
  /\ [](\A p \in Workers :
          TypeMismatch(p) =>
            /\ pc[p] \notin {"modify", "publish", "reply"}
            /\ published[p] = NoMessage
            /\ ~Ok(p)
            /\ (Done(p) /\ Valid(req[p])) => Conflicted(p))
  /\ [][\A p \in Workers :
          (TypeMismatch(p) /\ pc'[p] # pc[p]) => artifacts' = artifacts]_vars

\* C6: a request without contentType (so application/json) for an artifact
\* stored as text/plain has been answered RequestConflict.
C6_Witness ==
  \E p \in Workers :
    /\ Conflicted(p) /\ TypeMismatch(p)
    /\ req[p].body.contentType = Undef
    /\ artifacts[Key(req[p])].storageType = req[p].body.storageType
    /\ artifacts[Key(req[p])].contentType = "text/plain"

\* C7, as claimed: while a request is answered with a success, the stored
\* artifact has its storageType and contentType and an expires that is
\* not earlier than its expires.
C7_StoredCoversSuccess ==
  \A p \in Workers :
    Ok(p) =>
      /\ artifacts[Key(req[p])] # NoEntity
      /\ artifacts[Key(req[p])].storageType = req[p].body.storageType
      /\ artifacts[Key(req[p])].contentType = contentType(req[p])
      /\ artifacts[Key(req[p])].expires >= expires(req[p])

\* C8, as claimed: a valid request for the stored artifact, with an
\* expires earlier than the stored one, is answered with a success.
C8_EarlierSucceeds ==
  \A p \in Workers :
    (/\ Done(p) /\ Valid(req[p])
     /\ artifacts[Key(req[p])] # NoEntity
     /\ Matches(artifacts[Key(req[p])], req[p])
     /\ artifacts[Key(req[p])].expires > expires(req[p])) => Ok(p)

\* request p is about to load the artifact it asks for, which is stored
\* with a later expires
LoadsLater(p) ==
  /\ pc[p] = "load"
  /\ Matches(artifacts[Key(req[p])], req[p])
  /\ artifacts[Key(req[p])].expires > expires(req[p])

\* C8, amended: a request that loads the artifact it asks for and finds it
\* stored with a later expires is answered RequestConflict, publishes
\* nothing and leaves the Artifact table, so the stored expires, unchanged.
C8_EarlierConflicts ==
  [][\A p \in Workers :
       (LoadsLater(p) /\ pc'[p] # pc[p]) =>
         /\ pc'[p] = "done"
         /\ res'[p].code = "RequestConflict"
         /\ published'[p] = NoMessage
         /\ artifacts' = artifacts]_vars

\* C8: a valid request for the stored s3 artifact, with an expires earlier
\* than the stored one, has been answered RequestConflict.
C8_Witness ==
  \E p \in Workers :
    /\ Conflicted(p) /\ Valid(req[p])
    /\ req[p].body.storageType = "s3"
    /\ Matches(artifacts[Key(req[p])], req[p])
    /\ artifacts[Key(req[p])].expires > expires(req[p])

\* C9: no step removes a stored artifact or changes its key, storageType
\* or contentType; no step changes the details of an s3, azure or error
\* artifact; the details of a reference artifact stay a url.
C9_Immutable ==
  [][\A k \in Keys :
       artifacts[k] # NoEntity =>
         /\ artifacts'[k] # NoEntity
         /\ artifacts'[k].taskId = artifacts[k].taskId
         /\ artifacts'[k].runId = artifacts[k].runId
         /\ artifacts'[k].name = artifacts[k].name
         /\ artifacts'[k].storageType = artifacts[k].storageType
         /\ artifacts'[k].contentType = artifacts[k].contentType
         /\ (artifacts[k].storageType # "reference") =>
              artifacts'[k].details = artifacts[k].details
         /\ (artifacts[k].storageType = "reference") =>
              DOMAIN artifacts'[k].details = {"url"}]_vars

\* C9: a request for a reference artifact has succeeded and the stored url
\* is no longer its url, while a request for the same artifact with that
\* other url has succeeded as well.
C9_Witness ==
  /\ Ok("w1") /\ Ok("w2")
  /\ Key(req["w1"]) = Key(req["w2"])
  /\ req["w1"].body.storageType = "reference"
  /\ req["w2"].body.storageType = "reference"
  /\ req["w1"].body.url # req["w2"].body.url
  /\ artifacts[Key(req["w1"])].details.url = req["w2"].body.url

\* C10: every stored artifact belongs to a task and its expires is not
\* later than the expires of the task.
C10_WithinTaskExpires ==
  \A k \in Keys :
    artifacts[k] # NoEntity =>
      /\ tasks[k[1]] # NoEntity
      /\ artifacts[k].expires <= tasks[k[1]].expires

\* C10: two requests for one artifact have succeeded, the second with a
\* later expires, equal to the expires of the task, which the modify of
\* the second has stored.
C10_Witness ==
  /\ Ok("w1") /\ pc["w2"] = "publish"
  /\ Key(req["w1"]) = Key(req["w2"])
  /\ expires(req["w1"]) < expires(req["w2"])
  /\ artifacts[Key(req["w2"])].expires = tasks["T1"].expires
  /\ artifact["w2"] = artifacts[Key(req["w2"])]

\* the answer to a request for a run that takes no artifacts
NotUploadable ==
  reportError("RequestConflict",
              "Artifacts cannot be created for a task after it is resolved")

\* the request passes the checks made before the state of the run is
\* looked at
PassesEarlier(I) ==
  /\ ~(expires(I) < now - past15)
  /\ tasks[I.taskId] # NoEntity
  /\ RunOf(tasks[I.taskId], I.runId) # NoEntity
  /\ I.satisfies
  /\ ~(expires(I) > tasks[I.taskId].expires)

\* C11, as claimed: a request that passes the earlier checks is let
\* through when the run is running, or is resolved exception and
\* now - run.resolved <= 25 minutes; otherwise it is answered
\* RequestConflict, publishes nothing and the artifact is not stored.
C11_RunWindow ==
  \A p \in Workers :
    (Done(p) /\ req[p] # NoRequest /\ PassesEarlier(req[p])) =>
      LET run == RunOf(tasks[req[p].taskId], req[p].runId) IN
        IF \/ run.state = "running"
           \/ run.state = "exception" /\ now - run.resolved <= allow25
          THEN res[p] # NotUploadable
          ELSE /\ res[p] = NotUploadable
               /\ published[p] = NoMessage
               /\ artifacts[Key(req[p])] = NoEntity

\* the checks of a request in the order the handler makes them: whether
\* the check fails, and the answer when it does
Checks(I) ==
  LET t == tasks[I.taskId]
      run == IF t = NoEntity THEN NoEntity ELSE RunOf(t, I.runId) IN
    << <<expires(I) < now - past15,
         reportError("InputError", "Expires must be in the future")>>,
       <<t = NoEntity,
         reportError("InputError", "Task not found")>>,
       <<t # NoEntity /\ run = NoEntity,
         reportError("InputError", "Run not found")>>,
       <<~I.satisfies, AuthResponse>>,
       <<t # NoEntity /\ expires(I) > t.expires,
         reportError("InputError", "Artifact expires after the task expiration")>>,
       <<t # NoEntity /\ run # NoEntity /\ ~Uploadable(run), NotUploadable>> >>

\* the checks request I fails
Failed(I) == {i \in DOMAIN Checks(I) : Checks(I)[i][1]}

\* C12: no step of a request that fails a check made before
\* Artifact.create changes the Artifact table, publishes a message or
\* sends a success reply.
C12_NoSideEffects ==
  [][\A p \in Workers :
       (req'[p] # NoRequest /\ Failed(req'[p]) # {}) =>
         /\ artifacts' = artifacts
         /\ published'[p] = NoMessage
         /\ res'[p].code # "ok"
         /\ pc'[p] \notin {"create", "load", "modify", "publish", "reply"}]_vars

\* C12: a request without the scopes, for an artifact that is stored, has
\* been refused and the artifact is still stored.
C12_Witness ==
  \E p \in Workers :
    /\ Done(p) /\ res[p] = AuthResponse
    /\ Failed(req[p]) = {4}
    /\ artifacts[Key(req[p])] # NoEntity

\* C18: a request that fails one or more checks is answered with the
\* answer of the first check it fails, in the order: expires too old, task
\* not found, run not found, scopes, expires after task.expires, run not
\* uploadable.
C18_FirstFailure ==
  \A p \in Workers :
    (Done(p) /\ req[p] # NoRequest /\ Failed(req[p]) # {}) =>
      LET i == CHOOSE i \in Failed(req[p]) : \A j \in Failed(req[p]) : i <= j
      IN  res[p] = Checks(req[p])[i][2]

\* C18: a request without the scopes, with an expires after task.expires,
\* for a run that takes no artifacts, has been refused for its scopes.
C18_Witness ==
  \E p \in Workers :
    /\ Done(p) /\ res[p] = AuthResponse
    /\ Failed(req[p]) = {4, 5, 6}

\* C15: every stored s3 artifact is in the public bucket when its name
\* starts with public/ and in the private bucket otherwise, under the
\* prefix taskId/runId/name.
C15_BucketByName ==
  \A k \in Keys :
    (artifacts[k] # NoEntity /\ artifacts[k].storageType = "s3") =>
      /\ artifacts[k].details.bucket =
           IF Len(k[3]) >= 2 /\ k[3][1] = "public"
             THEN PublicBucketName ELSE PrivateBucketName
      /\ artifacts[k].details.prefix = <<k[1], k[2]>> \o k[3]
      /\ (k[3][1] # "public") => artifacts[k].details.bucket # PublicBucketName

\* C15: s3 artifacts public/a, private/b and publicity/c of one run are
\* stored, the first in the public bucket and the others in the private
\* one.
C15_Witness ==
  /\ \A n \in Names :
       /\ artifacts[<<"T1", 0, n>>] # NoEntity
       /\ artifacts[<<"T1", 0, n>>].storageType = "s3"
  /\ artifacts[<<"T1", 0, NameA>>].details.bucket = PublicBucketName
  /\ artifacts[<<"T1", 0, NameB>>].details.bucket = PrivateBucketName
  /\ artifacts[<<"T1", 0, NameC>>].details.bucket = PrivateBucketName

\* handler p serves a get request
Gets(p) ==
  /\ req[p] # NoRequest
  /\ "op" \in DOMAIN req[p]
  /\ req[p].op \in {"getArtifact", "getLatestArtifact"}

\* the number of runs of the task of the request of p
NumRuns(p) == Len(tasks[req[p].taskId].runs)

\* the key of the artifact a get request is about: the run it names, or
\* the highest run of its task
ServedKey(p) ==
  <<req[p].taskId,
    IF req[p].op = "getArtifact" THEN req[p].runId ELSE NumRuns(p) - 1,
    req[p].name>>

\* handler p is about to load the artifact of its get request, and the
\* artifact is stored
Serves(p) ==
  /\ pc[p] = "loadArtifact"
  /\ artifacts[ServedKey(p)] # NoEntity

\* C13: replyWithArtifact, for getArtifact and getLatestArtifact, answers
\* a stored error artifact with status 403 and the stored reason and
\* message, never with a redirect, and a stored s3, azure or reference
\* artifact with a 303 redirect.
C13_ErrorIs403 ==
  [][\A p \in Workers :
       (Serves(p) /\ pc'[p] # pc[p]) =>
         LET a == artifacts[ServedKey(p)] IN
           /\ (a.storageType = "error") =>
                /\ res'[p].code = "json"
                /\ res'[p].status = 403
                /\ res'[p].body = [reason  |-> a.details.reason,
                                   message |-> a.details.message]
           /\ (a.storageType \in {"s3", "azure", "reference"}) =>
                /\ res'[p].code = "redirect"
                /\ res'[p].status = 303]_vars

\* C13: getLatestArtifact has answered 403 with the reason and message of
\* the error artifact stored for the second run of the task.
C13_Witness ==
  \E p \in Workers :
    /\ Done(p) /\ Gets(p)
    /\ req[p].op = "getLatestArtifact"
    /\ req[p].taskId = "T1"
    /\ NumRuns(p) = 2
    /\ artifacts[ServedKey(p)] # NoEntity
    /\ artifacts[ServedKey(p)].storageType = "error"
    /\ res[p] = json403(artifacts[ServedKey(p)].details)

\* the name starts with public/
PublicName(name) == Len(name) >= 2 /\ name[1] = "public"

\* C14: for a get request with a public name req.satisfies is never
\* called and the request is never refused for its scopes; for any other
\* name req.satisfies has been called with {name} when the handler waits
\* for a task or an artifact, and a request it rejects never waits for
\* one and gets no other response than the Authorizer's.
C14_PublicBypass ==
  \A p \in Workers :
    Gets(p) =>
      IF PublicName(req[p].name)
        THEN /\ auth[p] = NoParams
             /\ res[p] # AuthResponse
             /\ pc[p] \in {"loadLatest", "loadArtifact", "done"}
        ELSE /\ auth[p] = [name |-> req[p].name]
             /\ ~req[p].satisfies =>
                  /\ pc[p] = "done"
                  /\ res[p] = AuthResponse
                  /\ task[p] = NoEntity /\ artifact[p] = NoEntity

\* C14: a get request without the scopes for the stored artifact
\* publicity/c has been refused.
C14_Witness ==
  \E p \in Workers :
    /\ Done(p) /\ Gets(p)
    /\ req[p].op = "getArtifact"
    /\ req[p].name = NameC /\ ~req[p].satisfies
    /\ artifacts[ServedKey(p)] # NoEntity
    /\ res[p] = AuthResponse

\* the URL the claim gives for a public s3 artifact, by the region of the
\* request and its x-taskcluster-skip-cache header
ClaimedUrl(I, prefix) ==
  LET direct == [kind |-> "s3", bucket |-> PublicBucketName, prefix |-> prefix]
  IN
  CASE I.region = NoRegion \/ I.skipCache \in {"true", "TRUE", "True", "1"} ->
         [kind |-> "cloud-front", bucket |-> PublicBucketName, prefix |-> prefix]
    [] OTHER ->
         IF I.region = ArtifactRegion
           THEN direct
           ELSE [kind |-> "cloud-mirror",
                 path |-> <<"v1", "redirect", "s3", I.region,
                            [encoded |-> direct]>>]

\* C16: a stored s3 artifact of the public bucket is served with a 303
\* redirect to the cloud-front URL when the region is unknown or the
\* header, lowercased, is true or 1; else to the URL of the bucket when
\* the region is that of the artifacts; else to the cloud-mirror URL made
\* of the region and the encoded URL of the bucket.
C16_PublicRedirect ==
  [][\A p \in Workers :
       (/\ Serves(p) /\ pc'[p] # pc[p]
        /\ artifacts[ServedKey(p)].storageType = "s3"
        /\ artifacts[ServedKey(p)].details.bucket = PublicBucketName) =>
         /\ res'[p] = redirect(ClaimedUrl(req[p], artifacts[ServedKey(p)].details.prefix))
         /\ res'[p].url.kind \in {"cloud-front", "s3", "cloud-mirror"}]_vars

\* C16: a request from the region of the artifacts with the header TRUE
\* has been redirected to the cloud-front URL.
C16_Witness ==
  \E p \in Workers :
    /\ Done(p) /\ Gets(p)
    /\ req[p].op = "getArtifact"
    /\ req[p].region = ArtifactRegion /\ req[p].skipCache = "TRUE"
    /\ res[p].code = "redirect"
    /\ res[p].url.kind = "cloud-front"

\* handler p serves a request for the latest run
Latest(p) ==
  /\ req[p] # NoRequest
  /\ "op" \in DOMAIN req[p]
  /\ req[p].op \in {"getLatestArtifact", "listLatestArtifacts"}

\* the artifacts of run r of task t, as listed
Listed(t, r) ==
  {[storageType |-> artifacts[k].storageType, name |-> artifacts[k].name,
    expires |-> artifacts[k].expires, contentType |-> artifacts[k].contentType] :
     k \in {k \in Keys : k[1] = t /\ k[2] = r /\ artifacts[k] # NoEntity}}

\* C17: a request for the latest run is answered ResourceNotFound as soon
\* as the task is loaded, before any artifact is read, when the task does
\* not exist or has no runs; otherwise the artifact served, or the
\* artifacts listed, are those of run (number of runs) - 1.
C17_LatestRun ==
  [][\A p \in Workers :
       (Latest(p) /\ pc'[p] # pc[p]) =>
         /\ (pc[p] = "loadLatest") =>
              IF tasks[req[p].taskId] = NoEntity \/ NumRuns(p) = 0
                THEN /\ pc'[p] = "done"
                     /\ res'[p].code = "ResourceNotFound"
                ELSE pc'[p] \in {"loadArtifact", "query"}
         /\ (pc[p] \in {"loadArtifact", "query"}) =>
              /\ tasks[req[p].taskId] # NoEntity
              /\ NumRuns(p) > 0
         /\ (pc[p] = "loadArtifact") =>
              res'[p] = ArtifactResponse(req[p],
                          artifacts[<<req[p].taskId, NumRuns(p) - 1, req[p].name>>])
         /\ (pc[p] = "query") =>
              res'[p] = reply([artifacts |-> Listed(req[p].taskId, NumRuns(p) - 1)])]_vars

\* C17: the artifacts of the second of two runs have been listed, while
\* the first run has an artifact that the second has not.
C17_Witness ==
  \E p \in Workers :
    /\ Done(p) /\ Latest(p)
    /\ req[p].op = "listLatestArtifacts"
    /\ req[p].taskId = "T1"
    /\ NumRuns(p) = 2
    /\ res[p] = reply([artifacts |-> Listed(req[p].taskId, 1)])
    /\ Listed(req[p].taskId, 1) # {}
    /\ Listed(req[p].taskId, 0) # {}
    /\ Listed(req[p].taskId, 0) # Listed(req[p].taskId, 1)

\* the publish of the request of p failed
PublishFailedFor(p) == pc[p] = "done" /\ res[p] = PublishFailed

\* what holds of the order of write, publish and reply within a request:
\* nothing is published while the request has not written; a message
\* published goes with a stored artifact; a success reply goes with a
\* message published; after a failed publish there is no message and no
\* success reply, and the artifact is stored
WritePublishReply(p) ==
  /\ (pc[p] \in {"loadTask", "create", "load", "modify", "publish"}) =>
       published[p] = NoMessage
  /\ (pc[p] \in {"publish", "reply"} \/ published[p] # NoMessage) =>
       artifacts[Key(req[p])] # NoEntity
  /\ (pc[p] = "reply" \/ Ok(p)) => published[p] # NoMessage
  /\ PublishFailedFor(p) =>
       /\ published[p] = NoMessage
       /\ res[p].code # "ok"
       /\ artifacts[Key(req[p])] # NoEntity

AbortedAfterWrite(q) == pc[q] = "done" /\ res[q] = Aborted("publish")

\* the request of p is the request of q once more, q was aborted between
\* its write and its publish, and the artifact is stored as q wrote it
Retries(p, q) ==
  /\ p # q
  /\ AbortedAfterWrite(q)
  /\ req[p] = req[q]
  /\ artifacts[Key(req[q])] = NewArtifact(req[q])

\* C20: the abort of a request between its write and its publish leaves
\* the Artifact table as it is; the same request made once more, unless
\* it is aborted or its publish fails, finds the artifact stored, loads
\* it, modifies it, publishes the message of the artifact and is answered
\* with a success.
C20_RetryPublishes ==
  /\ [](\A q \in AllWorkers :
          AbortedAfterWrite(q) =>
            /\ published[q] = NoMessage
            /\ artifacts[Key(req[q])] # NoEntity)
  /\ [][\A q \in AllWorkers :
          (pc[q] = "publish" /\ pc'[q] = "done") => artifacts' = artifacts]_vars
  /\ [][\A p \in AllWorkers : \A q \in AllWorkers :
          (/\ Retries(p, q)
           /\ pc'[p] # pc[p]
           /\ res'[p] # PublishFailed
           /\ res'[p].code # "aborted") =>
            /\ (pc[p] = "loadTask") => pc'[p] = "create"
            /\ (pc[p] = "create")   => pc'[p] = "load"
            /\ (pc[p] = "load")     => pc'[p] = "modify"
            /\ (pc[p] = "modify")   =>
                 /\ pc'[p] = "publish"
                 /\ artifacts' = artifacts
            /\ (pc[p] = "publish")  =>
                 /\ pc'[p] = "reply"
                 /\ published'[p] # NoMessage
                 /\ published'[p].artifact.name = req[p].name
                 /\ published'[p].artifact.expires = expires(req[p])
            /\ (pc[p] = "reply")    =>
                 /\ pc'[p] = "done"
                 /\ res'[p].code = "ok"
                 /\ published'[p] # NoMessage]_vars

\* C20: a request was aborted between its write and its publish, and the
\* same request, made once more, has loaded and modified the artifact
\* and published its message.
C20_Witness ==
  \E p \in AllWorkers : \E q \in AllWorkers :
    /\ Retries(p, q)
    /\ pc[p] = "reply"
    /\ published[p] # NoMessage

\* the run of key k is resolved completed or failed, or was resolved
\* exception more than 25 minutes ago
RunClosed(k) ==
  /\ tasks[k[1]] # NoEntity
  /\ RunOf(tasks[k[1]], k[2]) # NoEntity
  /\ LET run == RunOf(tasks[k[1]], k[2]) IN
       \/ run.state \in {"completed", "failed"}
       \/ run.state = "exception" /\ now - run.resolved > allow25

\* C21: no step inserts or modifies the artifact of a run that is
\* resolved completed or failed, or was resolved exception more than 25
\* minutes ago.
C21_NoWriteAfterResolved ==
  [][\A k \in Keys :
       (artifacts'[k] # artifacts[k]) => ~RunClosed(k)]_vars

\* request I is a re-create of the reference artifact a with the same
\* contentType, an expires that is not earlier and another url
UpdatesUrl(a, I) ==
  /\ a # NoEntity
  /\ a.storageType = "reference"
  /\ I.body.storageType = "reference"
  /\ a.contentType = contentType(I)
  /\ a.expires <= expires(I)
  /\ a.details.url # I.body.url

\* such a re-create is let through when it loads the artifact, its modify
\* stores its url, and it is answered with a success when its publish
\* does not fail
UrlReplaced ==
  \A p \in Workers :
    (req[p] # NoRequest /\ pc'[p] # pc[p]) =>
      /\ (pc[p] = "load" /\ UpdatesUrl(artifacts[Key(req[p])], req[p])) =>
           pc'[p] = "modify"
      /\ (pc[p] = "modify") =>
           /\ pc'[p] = "publish"
           /\ artifacts'[Key(req[p])].details = details(req[p])
      /\ (pc[p] = "publish") => (pc'[p] = "reply" \/ res'[p] = PublishFailed)
      /\ (pc[p] = "reply") => res'[p].code = "ok"

\* handler g is about to load the artifact of its getArtifact request,
\* which is stored as a reference artifact
GetsReference(g) ==
  /\ pc[g] = "loadArtifact"
  /\ req[g].op = "getArtifact"
  /\ artifacts[ServedKey(g)] # NoEntity
  /\ artifacts[ServedKey(g)].storageType = "reference"

\* the urls of the create requests for key k that were answered with a
\* success
SucceededUrls(k) ==
  {req[c].body.url :
     c \in {c \in Workers : /\ Ok(c) /\ Key(req[c]) = k
                            /\ req[c].body.storageType = "reference"}}

\* C22, as claimed: a re-create of a reference artifact with another url
\* replaces the stored url, and a getArtifact made after the create
\* requests, of which one or more succeeded, is redirected (303) to the
\* url of one that succeeded, so to the url of the one that succeeded
\* when the other did not.
C22_LatestSuccessfulUrl ==
  [][/\ UrlReplaced
     /\ \A g \in AllWorkers \ Workers :
          (GetsReference(g) /\ pc'[g] # pc[g]) =>
            /\ res'[g].code = "redirect"
            /\ res'[g].status = 303
            /\ (SucceededUrls(ServedKey(g)) # {}) =>
                 res'[g].url.href \in SucceededUrls(ServedKey(g))]_vars

\* C22, amended: a re-create of a reference artifact with another url
\* replaces the stored url; the url of a stored reference artifact is
\* changed by no step other than the modify of a create request for its
\* key, which stores the url of that request; and getArtifact is
\* redirected (303) to the url stored.
C22_LatestWrittenUrl ==
  [][/\ UrlReplaced
     /\ \A k \in Keys :
          (/\ artifacts[k] # NoEntity
           /\ artifacts[k].storageType = "reference"
           /\ artifacts'[k] # artifacts[k]) =>
            \E p \in Workers :
              /\ pc[p] = "modify" /\ pc'[p] = "publish"
              /\ Key(req[p]) = k
              /\ artifacts'[k].details.url = req[p].body.url
     /\ \A g \in AllWorkers \ Workers :
          (GetsReference(g) /\ pc'[g] # pc[g]) =>
            res'[g] = redirect([kind |-> "reference",
                                href |-> artifacts[ServedKey(g)].details.url])]_vars

\* C22: two create requests for a reference artifact with two urls have
\* succeeded and a getArtifact has been redirected to the url stored,
\* which is the url of the second.
C22_Witness ==
  /\ Ok("w1") /\ Ok("w2") /\ Done("w3")
  /\ Key(req["w1"]) = Key(req["w2"])
  /\ req["w1"].body.storageType = "reference"
  /\ req["w2"].body.storageType = "reference"
  /\ req["w1"].body.url # req["w2"].body.url
  /\ expires(req["w1"]) < expires(req["w2"])
  /\ req["w3"].op = "getArtifact"
  /\ ServedKey("w3") = Key(req["w2"])
  /\ artifacts[Key(req["w2"])].details.url = req["w2"].body.url
  /\ res["w3"] = redirect([kind |-> "reference", href |-> req["w2"].body.url])

\* the two buckets configured
Buckets == {PublicBucketName, PrivateBucketName}

\* C23: the two buckets being distinct, every stored s3 artifact is in
\* one of them; a create request about to reply for an s3 artifact has
\* one of them to ask the put URL of; and no request is answered with the
\* error of a URL or a bucket that is null: a get request for a stored s3
\* artifact that has been served has been redirected.
C23_UrlConstructed ==
  /\ PublicBucketName # PrivateBucketName
  /\ \A k \in Keys :
       (artifacts[k] # NoEntity /\ artifacts[k].storageType = "s3") =>
         artifacts[k].details.bucket \in Buckets
  /\ \A p \in Workers :
       /\ (pc[p] = "reply" /\ artifact[p].storageType = "s3") =>
            artifact[p].details.bucket \in Buckets
       /\ res[p].code # "InternalError"
       /\ (/\ Done(p) /\ Gets(p) /\ res[p] # AuthResponse
           /\ tasks[req[p].taskId] # NoEntity
           /\ NumRuns(p) > 0
           /\ artifacts[ServedKey(p)] # NoEntity
           /\ artifacts[ServedKey(p)].storageType = "s3") =>
            /\ res[p].code = "redirect"
            /\ res[p].url.kind \in {"cloud-front", "s3", "cloud-mirror", "signed"}

\* C23: a get request for the stored s3 artifact private/b has been
\* redirected to a signed URL of the private bucket.
C23_Witness ==
  \E p \in Workers :
    /\ Done(p) /\ Gets(p)
    /\ req[p].op = "getArtifact"
    /\ req[p].name = NameB
    /\ res[p].code = "redirect"
    /\ res[p].url = [kind |-> "signed", bucket |-> PrivateBucketName,
                      prefix |-> <<"T1", req[p].runId>> \o NameB,
                      expires |-> putUrlMinutes]

\* a createArtifact request, and a get or list request
Creates(I) == I # NoRequest /\ "body" \in DOMAIN I
Reads(I) == I # NoRequest /\ "op" \in DOMAIN I

\* the (taskId, runId, name) a createArtifact request names
Named(I) == <<I.taskId, I.runId, I.name>>

\* C24: a record of the store changes only in a step of a createArtifact
\* handler whose request names the record's (taskId, runId, name), so that
\* such a request leaves every record with another key unchanged; a step of
\* getArtifact, getLatestArtifact, listArtifacts or listLatestArtifacts
\* leaves the whole store unchanged, and these handlers publish nothing.
C24_Frame ==
  /\ [](\A p \in Workers : Reads(req[p]) => published[p] = NoMessage)
  /\ [][/\ \A k \in Keys :
            artifacts'[k] # artifacts[k] =>
              \E p \in Workers :
                /\ Creates(req[p])
                /\ req'[p] = req[p]
                /\ pc'[p] # pc[p]
                /\ Named(req[p]) = k
        /\ \A p \in Workers :
            (Reads(req'[p]) /\ (pc'[p] # pc[p] \/ res'[p] # res[p])) =>
              /\ artifacts' = artifacts
              /\ published' = published]_vars

\* C24: the store holds public/a and private/b of run 0, the create handler
\* has just written private/b for its request and is about to publish, and
\* the list of the run's artifacts has been served with both entries.
C24_Witness ==
  /\ pc["w1"] = "publish"
  /\ Creates(req["w1"])
  /\ Named(req["w1"]) = <<"T1", 0, NameB>>
  /\ artifacts[<<"T1", 0, NameA>>] # NoEntity
  /\ artifacts[<<"T1", 0, NameB>>] # NoEntity
  /\ Done("w2")
  /\ req["w2"].op = "listArtifacts"
  /\ res["w2"].code = "ok"
  /\ Cardinality(res["w2"].body.artifacts) = 2

====
